---- MODULE Spec2Model ----
(***************************************************************************)
(* Model of the upload handlers of src/handler_upload_video.go.            *)
(*                                                                         *)
(* The source holds four handler bodies:                                   *)
(*   VA  handlerUploadVideo      lines  17-121  (no transcoding)           *)
(*   VB  handlerUploadVideo      lines 142-281  (ffmpeg + ffprobe)         *)
(*   TA  handlerUploadThumbnail  lines 388-505  (random file name)         *)
(*   TB  handlerUploadThumbnail  lines 534-630  (file name = video id)     *)
(* A request is dispatched to one of them and then runs it step by step,   *)
(* interleaved with the other requests. Shared state: the record store     *)
(* (db), the local disk (disk) and the object store (s3).                  *)
(*                                                                         *)
(* Strings built by the code (paths, keys, URLs) are sequences of string   *)
(* pieces, so that concatenation and formatting are modelled by what they  *)
(* produce. A nil *string is the empty sequence.                           *)
(***************************************************************************)
EXTENDS Integers, Sequences, FiniteSets, TLC

\* ------------------------------------------------------------------ bounds

\* Largest width / height drawn for the prober's classification (SpecProbe).
MaxDim == 20

\* Largest small part size, and distance from the size limits, drawn for
\* the staging of one upload (SpecStage).
MaxPart == 3
\* Largest number of bytes of multipart framing around the part.
MaxFraming == 2

\* ------------------------------------------------------- program constants

\* const maxUploadSize = 1 << 30
maxUploadSize == 1073741824
\* r.FormFile parses the form with net/http's defaultMaxMemory (32 << 20):
\* a file part up to that size is kept in memory, a larger one is spooled
\* to a file on disk.
defaultMaxMemory == 33554432

\* randBytes := make([]byte, 32)
NumRandBytes == 32

StatusOK == 200
StatusBadRequest == 400
StatusUnauthorized == 401
StatusNotFound == 404
StatusInternalServerError == 500

\* cfg.* (immutable configuration)
s3Bucket == "tubely-bucket"
s3Region == "us-east-2"
port == "8091"
assetsRoot == "assets"

\* ------------------------------------------------------------- input sets

Reqs == {"r1", "r2"}
Kinds == {"VA", "VB", "TA", "TB"}

NilUUID == "00000000-0000-0000-0000-000000000000"
\* r.PathValue("videoID"): a stored record, a well-formed id of no record,
\* and a string that is no UUID.
PathValues == {"v1", "v9", "not-a-uuid"}
WellFormedUUIDs == {"v1", "v2", "v9", NilUUID}

Users == {"u1", "u2"}
\* The Authorization header: absent, a token that does not validate, or a
\* valid token of a user.
Credentials == {"none", "bad", "u1", "u2"}

\* Names os.CreateTemp may draw for the "*" of its pattern.
TempNames == {"1", "2"}

\* Blocks crypto/rand may deliver.
RandBlocks ==
  { [i \in 1..NumRandBytes |-> 0],
    [i \in 1..NumRandBytes |-> (i * 37 + 11) % 256] }

\* Content-Type values of the uploaded part: <<media type, parameters...>>,
\* <<>> is the empty header.
VideoHeaders ==
  { <<"video/mp4">>, <<"video/mp4", "; codecs=avc1">>,
    <<"video/webm">>, <<"Video/WebM">>, <<"video/mp4", ";=">>, <<>> }
ImageHeaders ==
  { <<"image/png">>, <<"image/jpeg">>, <<"image/gif">>,
    <<"image/png", "; charset=utf-8">>, <<"Image/GIF">>,
    <<"text/plain">>, <<"image/png", ";=">>, <<>> }

\* ----------------------------------------------------- library functions

\* strings.ToLower on the media types the inputs contain.
ToLower(s) ==
  CASE s = "Video/WebM" -> "video/webm"
    [] s = "Image/GIF" -> "image/gif"
    [] OTHER -> s

\* mime.ParseMediaType: the media type before the first ";", lower-cased;
\* an error for an empty media type or a malformed parameter.
ParseMediaType(h) ==
  IF h = <<>> THEN [err |-> TRUE, mediatype |-> ""]
  ELSE IF \E i \in 2..Len(h) : h[i] = ";="
       THEN [err |-> TRUE, mediatype |-> ""]
       ELSE [err |-> FALSE, mediatype |-> ToLower(h[1])]

\* header.Header.Get("Content-Type"): the header as one Go string.
HeaderValue(h) ==
  IF h = <<>> THEN "" ELSE IF Len(h) = 1 THEN h[1] ELSE h[1] \o h[2]

\* uuid.Parse
UUIDParse(s) ==
  IF s \in WellFormedUUIDs THEN [err |-> FALSE, id |-> s]
  ELSE [err |-> TRUE, id |-> NilUUID]

\* auth.GetBearerToken
GetBearerToken(c) ==
  IF c = "none" THEN [err |-> TRUE, token |-> ""]
  ELSE [err |-> FALSE, token |-> c]

\* auth.ValidateJWT
ValidateJWT(token) ==
  IF token \in Users THEN [err |-> FALSE, userID |-> token]
  ELSE [err |-> TRUE, userID |-> NilUUID]

\* The URL-safe base64 alphabet.
Alphabet ==
  << "A","B","C","D","E","F","G","H","I","J","K","L","M","N","O","P",
     "Q","R","S","T","U","V","W","X","Y","Z","a","b","c","d","e","f",
     "g","h","i","j","k","l","m","n","o","p","q","r","s","t","u","v",
     "w","x","y","z","0","1","2","3","4","5","6","7","8","9","-","_" >>

AlphabetChars == { Alphabet[i] : i \in 1..64 }

\* base64.RawURLEncoding.EncodeToString: 3 bytes give 4 characters, a
\* remainder of 1 or 2 bytes gives 2 or 3 characters, no padding.
RECURSIVE EncodeFrom(_, _)
EncodeFrom(b, i) ==
  LET n == Len(b) - i + 1 IN
  IF n <= 0 THEN <<>>
  ELSE IF n = 1 THEN
    << Alphabet[(b[i] \div 4) + 1], Alphabet[((b[i] % 4) * 16) + 1] >>
  ELSE IF n = 2 THEN
    << Alphabet[(b[i] \div 4) + 1],
       Alphabet[((b[i] % 4) * 16 + (b[i+1] \div 16)) + 1],
       Alphabet[((b[i+1] % 16) * 4) + 1] >>
  ELSE
    << Alphabet[(b[i] \div 4) + 1],
       Alphabet[((b[i] % 4) * 16 + (b[i+1] \div 16)) + 1],
       Alphabet[((b[i+1] % 16) * 4 + (b[i+2] \div 64)) + 1],
       Alphabet[(b[i+2] % 64) + 1] >> \o EncodeFrom(b, i + 3)

EncodeToString(b) == EncodeFrom(b, 1)

\* ------------------------------------------------------------ the prober

\* What ffprobe may do: fail to run, print something that is no JSON of the
\* expected shape, or print a list of streams (width, height).
ProbeRuns(dims) ==
  { [run |-> "fail", streams |-> <<>>],
    [run |-> "malformed", streams |-> <<>>],
    [run |-> "ok", streams |-> <<>>] }
  \cup { [run |-> "ok", streams |-> <<d>>] : d \in dims }

\* ratio > num/den for ratio = width/height, height # 0 (float64 division
\* is exact enough for |width|, |height| < 10^13 to order the quotient
\* against the constants 1.7, 1.8, 0.55 and 0.57 as the rationals do).
RatioGT(width, height, num, den) ==
  IF height > 0 THEN width * den > num * height
  ELSE width * den < num * height

RatioLT(width, height, num, den) ==
  IF height > 0 THEN width * den < num * height
  ELSE width * den > num * height

\* getVideoAspectRatio with the lower landscape limit included (>= 1.7).
getVideoAspectRatio_strict(o) ==
  IF o.run = "fail" THEN [err |-> TRUE, val |-> ""]
  ELSE IF o.run = "malformed" THEN [err |-> TRUE, val |-> ""]
  ELSE IF Len(o.streams) = 0 THEN [err |-> FALSE, val |-> "other"]
  ELSE LET width == o.streams[1][1]
           height == o.streams[1][2] IN
    IF height = 0 THEN [err |-> FALSE, val |-> "other"]
    ELSE IF ~RatioLT(width, height, 17, 10) /\ RatioLT(width, height, 18, 10)
      THEN [err |-> FALSE, val |-> "16:9"]
    ELSE IF RatioGT(width, height, 55, 100) /\ RatioLT(width, height, 57, 100)
      THEN [err |-> FALSE, val |-> "9:16"]
    ELSE [err |-> FALSE, val |-> "other"]

getVideoAspectRatio(o) ==
  IF o.run = "fail" THEN [err |-> TRUE, val |-> ""]
  ELSE IF o.run = "malformed" THEN [err |-> TRUE, val |-> ""]
  ELSE IF Len(o.streams) = 0 THEN [err |-> FALSE, val |-> "other"]
  ELSE LET width == o.streams[1][1]
           height == o.streams[1][2] IN
    IF height = 0 THEN [err |-> FALSE, val |-> "other"]
    ELSE IF RatioGT(width, height, 17, 10) /\ RatioLT(width, height, 18, 10)
      THEN [err |-> FALSE, val |-> "16:9"]
    ELSE IF RatioGT(width, height, 55, 100) /\ RatioLT(width, height, 57, 100)
      THEN [err |-> FALSE, val |-> "9:16"]
    ELSE [err |-> FALSE, val |-> "other"]

\* The switch with the two orientation cases exchanged.
S3KeyPrefix_swapped(aspectRatio) ==
  CASE aspectRatio = "16:9" -> "portrait"
    [] aspectRatio = "9:16" -> "landscape"
    [] OTHER -> "other"

\* switch aspectRatio { ... }
S3KeyPrefix(aspectRatio) ==
  CASE aspectRatio = "16:9" -> "landscape"
    [] aspectRatio = "9:16" -> "portrait"
    [] OTHER -> "other"

\* getFileExtension
getFileExtension(ct) ==
  CASE ct = "image/jpeg" -> [err |-> FALSE, ext |-> ".jpg"]
    [] ct = "image/png" -> [err |-> FALSE, ext |-> ".png"]
    [] ct = "image/gif" -> [err |-> FALSE, ext |-> ".gif"]
    [] OTHER -> [err |-> TRUE, ext |-> ""]

VideoKinds == {"VA", "VB"}
ThumbKinds == {"TA", "TB"}

\* ------------------------------------------------------------------ state

VARIABLES
  loc,    \* loc[r]: the handler's local variables and position for request r
  db,     \* the record store: video id -> record
  disk,   \* the local file system: path -> content
  s3,     \* the object store: key -> object
  drawn,  \* crypto/rand: the blocks delivered so far
  probe,  \* SpecProbe: the prober's input and results
  stage   \* SpecStage: one upload on its way into the staged file

vars == <<loc, db, disk, s3, drawn, probe, stage>>

NoPath == [dir |-> "", name |-> <<>>, suffix |-> ""]

\* database.Video{}: the zero value.
ZeroVideo ==
  [ID |-> NilUUID, UserID |-> NilUUID, VideoURL |-> <<>>, ThumbnailURL |-> <<>>]

NoProbe == [run |-> "", streams |-> <<>>]

InitLoc ==
  [kind |-> "", pc |-> "idle", videoID |-> NilUUID, userID |-> NilUUID,
   video |-> ZeroVideo, contentType |-> <<>>, fileExt |-> "",
   tempFile |-> NoPath, processedFilePath |-> NoPath, ffprobe |-> NoProbe,
   s3KeyPrefix |-> "", s3Key |-> <<>>, filename |-> <<>>, filePath |-> NoPath,
   defers |-> <<>>, trace |-> <<>>]

\* The store holds a record of each user; the requests address v1.
InitDB ==
  ("v1" :> [ID |-> "v1", UserID |-> "u1", VideoURL |-> <<>>, ThumbnailURL |-> <<>>])
  @@ ("v2" :> [ID |-> "v2", UserID |-> "u2", VideoURL |-> <<>>, ThumbnailURL |-> <<>>])

InitProbe == [in |-> NoProbe, out |-> [err |-> FALSE, val |-> ""], prefix |-> "", pc |-> "off"]

\* No part opened, no temp file created, nothing responded.
NoFile == [backing |-> "", open |-> FALSE, size |-> 0]
NoTemp == [exists |-> FALSE, bytes |-> 0, offset |-> 0]
InitStage ==
  [pc |-> "off", kind |-> "", part |-> 0, framing |-> 0, file |-> NoFile,
   tempFile |-> NoTemp, read |-> 0, written |-> 0, readOpen |-> FALSE,
   delivered |-> 0, code |-> 0, msg |-> "", cause |-> ""]

Init ==
  /\ loc = [r \in Reqs |-> InitLoc]
  /\ db = InitDB
  /\ disk = <<>>
  /\ s3 = <<>>
  /\ drawn = {}
  /\ probe = InitProbe
  /\ stage = InitStage

\* ---------------------------------------------------------------- helpers

\* trace: the calls a request has made that reach outside the handler, in
\* order: responses written (with status and message) and effects.
Ev(op, code, msg) == [op |-> op, code |-> code, msg |-> msg]

\* respondWithError / respondWithJSON: one more response written.
RespondWithError(l, code, msg) ==
  [l EXCEPT !.trace = Append(@, Ev("respondWithError", code, msg))]
RespondWithJSON(l, code) ==
  [l EXCEPT !.trace = Append(@, Ev("respondWithJSON", code, ""))]
Did(l, op) == [l EXCEPT !.trace = Append(@, Ev(op, 0, ""))]

Defer(l, op, path) == [l EXCEPT !.defers = Append(@, [op |-> op, path |-> path])]

\* The content of a file: the request whose upload the bytes come from and
\* how much of it is there ("empty", "partial", "full"; "faststart" and
\* "partial-faststart" for the transcoder's output).
File(r, state) == [from |-> r, state |-> state]

RemoveFile(d, path) == [p \in (DOMAIN d) \ {path} |-> d[p]]
WriteFile(d, path, content) == (path :> content) @@ d

\* The deferred calls run last-in first-out when the handler returns:
\* os.Remove deletes the path, Close leaves the disk as it is.
RECURSIVE RunDefers(_, _)
RunDefers(d, stack) ==
  IF stack = <<>> THEN d
  ELSE LET top == stack[Len(stack)]
           rest == SubSeq(stack, 1, Len(stack) - 1) IN
       RunDefers(IF top.op = "Remove" THEN RemoveFile(d, top.path) ELSE d, rest)

\* return: the handler ends with locals l, the deferred calls run on disk
\* d. The locals go out of scope; what the request did stays in its trace.
Return(r, l, d) ==
  /\ loc' = [loc EXCEPT ![r] = [InitLoc EXCEPT !.kind = l.kind, !.pc = "done",
                                               !.trace = l.trace]]
  /\ disk' = RunDefers(d, l.defers)

\* The handler goes on at position next with locals l.
Goto(r, l, next) == loc' = [loc EXCEPT ![r] = [l EXCEPT !.pc = next]]

At(r, k, p) == loc[r].kind = k /\ loc[r].pc = p

\* db.GetVideo
GetVideo(id) ==
  IF id \in DOMAIN db THEN [err |-> FALSE, video |-> db[id]]
  ELSE [err |-> TRUE, video |-> ZeroVideo]

\* db.UpdateVideo, when it succeeds: the stored record is replaced by the
\* one submitted; a record the store does not hold updates nothing.
UpdateVideo(video) ==
  IF video.ID \in DOMAIN db THEN [db EXCEPT ![video.ID] = video] ELSE db

VideoURLOf(key) == <<"https://", s3Bucket, ".s3.", s3Region, ".amazonaws.com/">> \o key
ThumbnailURLOf(filename) == <<"http://localhost:", port, "/assets/">> \o filename

\* crypto/rand delivers a block no request has drawn before (32 random
\* bytes do not repeat in practice).
RandRead == RandBlocks \ drawn

\* The router hands request r to one of the handlers.
Dispatch(r) ==
  /\ loc[r].pc = "idle"
  /\ \E k \in Kinds : loc' = [loc EXCEPT ![r] = [@ EXCEPT !.kind = k, !.pc = "ParseID"]]
  /\ UNCHANGED <<db, disk, s3, drawn, probe, stage>>

\* ------------------------------------------- VB: handlerUploadVideo (142)

\* 2. Extract and parse videoID from URL
VB_ParseID(r) ==
  /\ At(r, "VB", "ParseID")
  /\ \E s \in PathValues :
       LET p == UUIDParse(s) IN
       IF p.err
       THEN Return(r, RespondWithError(loc[r], StatusBadRequest, "Invalid video ID"), disk)
       ELSE Goto(r, [loc[r] EXCEPT !.videoID = p.id], "Auth") /\ UNCHANGED disk
  /\ UNCHANGED <<db, s3, drawn, probe, stage>>

\* 3. Authenticate the user
VB_Auth(r) ==
  /\ At(r, "VB", "Auth")
  /\ \E c \in Credentials :
       LET t == GetBearerToken(c)
           u == ValidateJWT(t.token) IN
       IF t.err
       THEN Return(r, RespondWithError(loc[r], StatusUnauthorized, "Couldn't find JWT"), disk)
       ELSE IF u.err
       THEN Return(r, RespondWithError(loc[r], StatusUnauthorized, "Couldn't validate JWT"), disk)
       ELSE Goto(r, [loc[r] EXCEPT !.userID = u.userID], "GetVideo") /\ UNCHANGED disk
  /\ UNCHANGED <<db, s3, drawn, probe, stage>>

\* VB_GetVideo with the return after the ownership response left out.
VB_GetVideo_noreturn(r) ==
  /\ At(r, "VB", "GetVideo")
  /\ LET g == GetVideo(loc[r].videoID)
         l == [loc[r] EXCEPT !.video = g.video] IN
     IF g.err
     THEN Return(r, RespondWithError(l, StatusNotFound, "Video not found"), disk)
     ELSE IF g.video.UserID # loc[r].userID
     THEN Goto(r, RespondWithError(l, StatusUnauthorized, "You are not authorized to upload this video"), "FormFile")
          /\ UNCHANGED disk
     ELSE Goto(r, l, "FormFile") /\ UNCHANGED disk
  /\ UNCHANGED <<db, s3, drawn, probe, stage>>

\* 4. Get video metadata and check ownership
VB_GetVideo(r) ==
  /\ At(r, "VB", "GetVideo")
  /\ LET g == GetVideo(loc[r].videoID)
         l == [loc[r] EXCEPT !.video = g.video] IN
     IF g.err
     THEN Return(r, RespondWithError(l, StatusNotFound, "Video not found"), disk)
     ELSE IF g.video.UserID # loc[r].userID
     THEN Return(r, RespondWithError(l, StatusUnauthorized, "You are not authorized to upload this video"), disk)
     ELSE Goto(r, l, "FormFile") /\ UNCHANGED disk
  /\ UNCHANGED <<db, s3, drawn, probe, stage>>

\* 5. Parse the uploaded video file from form data
VB_FormFile(r) ==
  /\ At(r, "VB", "FormFile")
  /\ \/ Return(r, RespondWithError(loc[r], StatusBadRequest, "Couldn't get video file from form"), disk)
     \/ \E h \in VideoHeaders :
          /\ Goto(r, Defer([loc[r] EXCEPT !.contentType = h], "Close", NoPath), "ContentType")
          /\ UNCHANGED disk
  /\ UNCHANGED <<db, s3, drawn, probe, stage>>

\* 6. Validate the uploaded file is a video/mp4
VB_ContentType(r) ==
  /\ At(r, "VB", "ContentType")
  /\ LET h == loc[r].contentType IN
       LET m == ParseMediaType(h)
           l == loc[r] IN
       IF m.err
       THEN Return(r, RespondWithError(l, StatusBadRequest, "Failed to parse media type"), disk)
       ELSE IF m.mediatype # "video/mp4"
       THEN Return(r, RespondWithError(l, StatusBadRequest, "Unsupported file type"), disk)
       ELSE Goto(r, l, "CreateTemp") /\ UNCHANGED disk
  /\ UNCHANGED <<db, s3, drawn, probe, stage>>

\* 7. Save the uploaded file to a temporary file on disk
VB_CreateTemp(r) ==
  /\ At(r, "VB", "CreateTemp")
  /\ \/ Return(r, RespondWithError(loc[r], StatusInternalServerError, "Couldn't create temp file"), disk)
     \/ \E n \in TempNames :
          LET path == [dir |-> "tmp", name |-> <<"tubely-upload-", n, ".mp4">>, suffix |-> ""] IN
          /\ path \notin DOMAIN disk
          /\ disk' = WriteFile(disk, path, File(r, "empty"))
          /\ Goto(r, Defer(Defer(Did([loc[r] EXCEPT !.tempFile = path], "CreateTemp"),
                                 "Remove", path), "Close", path), "Copy")
  /\ UNCHANGED <<db, s3, drawn, probe, stage>>

\* 8. Copy contents over; 9. reset the temp file's pointer
VB_Copy(r) ==
  /\ At(r, "VB", "Copy")
  /\ \/ Return(r, RespondWithError(Did(loc[r], "Copy"), StatusInternalServerError, "Couldn't copy video to temp file"),
               WriteFile(disk, loc[r].tempFile, File(r, "partial")))
     \/ Return(r, RespondWithError(Did(Did(loc[r], "Copy"), "Seek"), StatusInternalServerError, "Couldn't reset temp file pointer"),
               WriteFile(disk, loc[r].tempFile, File(r, "full")))
     \/ /\ disk' = WriteFile(disk, loc[r].tempFile, File(r, "full"))
        /\ Goto(r, Did(Did(loc[r], "Copy"), "Seek"), "Process")
  /\ UNCHANGED <<db, s3, drawn, probe, stage>>

\* processVideoForFastStart: ffmpeg writes filePath + ".processing"; when it
\* fails it may leave no output or a partial one.
processVideoForFastStart(filePath, src, d) ==
  LET processedFilePath == [filePath EXCEPT !.suffix = ".processing"] IN
  { [err |-> FALSE, path |-> processedFilePath,
     disk |-> WriteFile(d, processedFilePath, [src EXCEPT !.state = "faststart"])],
    [err |-> TRUE, path |-> NoPath,
     disk |-> WriteFile(d, processedFilePath, [src EXCEPT !.state = "partial-faststart"])],
    [err |-> TRUE, path |-> NoPath, disk |-> d] }

\* 10. Process the video for fast start
VB_Process(r) ==
  /\ At(r, "VB", "Process")
  /\ \E p \in processVideoForFastStart(loc[r].tempFile, disk[loc[r].tempFile], disk) :
       IF p.err
       THEN Return(r, RespondWithError(Did(loc[r], "ffmpeg"), StatusInternalServerError, "Couldn't process video for fast start"), p.disk)
       ELSE /\ disk' = p.disk
            /\ Goto(r, Defer(Did([loc[r] EXCEPT !.processedFilePath = p.path], "ffmpeg"),
                             "Remove", p.path), "Probe")
  /\ UNCHANGED <<db, s3, drawn, probe, stage>>

\* The prober's outcomes the handler runs are drawn from.
HandlerDims == { <<1920, 1080>>, <<1080, 1920>>, <<640, 480>> }

\* 11. Get aspect ratio and determine S3 key prefix
VB_Probe(r) ==
  /\ At(r, "VB", "Probe")
  /\ \E o \in ProbeRuns(HandlerDims) :
       LET a == getVideoAspectRatio(o)
           l == Did([loc[r] EXCEPT !.ffprobe = o], "ffprobe") IN
       IF a.err
       THEN Return(r, RespondWithError(l, StatusInternalServerError, "Couldn't get video aspect ratio"), disk)
       ELSE Goto(r, [l EXCEPT !.s3KeyPrefix = S3KeyPrefix(a.val)], "Key") /\ UNCHANGED disk
  /\ UNCHANGED <<db, s3, drawn, probe, stage>>

\* 12. the random key, and the processed file opened for the upload
VB_Key(r) ==
  /\ At(r, "VB", "Key")
  /\ \/ /\ Return(r, RespondWithError(loc[r], StatusInternalServerError, "Could not generate random filename for S3 key"), disk)
        /\ UNCHANGED drawn
     \/ \E b \in RandRead :
          LET s3Key == <<loc[r].s3KeyPrefix, "/">> \o EncodeToString(b) \o <<".mp4">>
              l == [loc[r] EXCEPT !.s3Key = s3Key] IN
          /\ drawn' = drawn \cup {b}
          /\ \/ Return(r, RespondWithError(l, StatusInternalServerError, "Couldn't open processed video file"), disk)
             \/ Goto(r, Defer(l, "Close", loc[r].processedFilePath), "Put") /\ UNCHANGED disk
  /\ UNCHANGED <<db, s3, probe, stage>>

\* VB_Put going on to the record update after a failed put.
VB_Put_continue(r) ==
  /\ At(r, "VB", "Put")
  /\ \/ /\ Goto(r, RespondWithError(Did(loc[r], "PutObject"), StatusInternalServerError, "Couldn't upload file to S3"), "Update")
        /\ UNCHANGED <<s3, disk>>
     \/ /\ s3' = (loc[r].s3Key :> [Body |-> disk[loc[r].processedFilePath],
                                   ContentType |-> loc[r].contentType]) @@ s3
        /\ Goto(r, Did(loc[r], "PutObject"), "Update")
        /\ UNCHANGED disk
  /\ UNCHANGED <<db, drawn, probe, stage>>

\* 12. Put the processed video into S3
VB_Put(r) ==
  /\ At(r, "VB", "Put")
  /\ \/ /\ Return(r, RespondWithError(Did(loc[r], "PutObject"), StatusInternalServerError, "Couldn't upload file to S3"), disk)
        /\ UNCHANGED s3
     \/ /\ s3' = (loc[r].s3Key :> [Body |-> disk[loc[r].processedFilePath],
                                   ContentType |-> loc[r].contentType]) @@ s3
        /\ Goto(r, Did(loc[r], "PutObject"), "Update")
        /\ UNCHANGED disk
  /\ UNCHANGED <<db, drawn, probe, stage>>

\* VB_Update submitting the stored record with the video locator patched
\* instead of the copy read in step 4.
VB_Update_patch(r) ==
  /\ At(r, "VB", "Update")
  /\ LET video == [db[loc[r].video.ID] EXCEPT !.VideoURL = VideoURLOf(loc[r].s3Key)]
         l == Did([loc[r] EXCEPT !.video = video], "UpdateVideo") IN
     \/ /\ Return(r, RespondWithError(l, StatusInternalServerError, "Couldn't update video record"), disk)
        /\ UNCHANGED db
     \/ /\ db' = UpdateVideo(video)
        /\ Return(r, RespondWithJSON(l, StatusOK), disk)
  /\ UNCHANGED <<s3, drawn, probe, stage>>

\* 13. Update the video record in the database with the S3 URL;
\* 14. respond with the updated JSON
VB_Update(r) ==
  /\ At(r, "VB", "Update")
  /\ LET video == [loc[r].video EXCEPT !.VideoURL = VideoURLOf(loc[r].s3Key)]
         l == Did([loc[r] EXCEPT !.video = video], "UpdateVideo") IN
     \/ /\ Return(r, RespondWithError(l, StatusInternalServerError, "Couldn't update video record"), disk)
        /\ UNCHANGED db
     \/ /\ db' = UpdateVideo(video)
        /\ Return(r, RespondWithJSON(l, StatusOK), disk)
  /\ UNCHANGED <<s3, drawn, probe, stage>>

VB(r) ==
  \/ VB_ParseID(r) \/ VB_Auth(r) \/ VB_GetVideo(r) \/ VB_FormFile(r)
  \/ VB_ContentType(r) \/ VB_CreateTemp(r) \/ VB_Copy(r) \/ VB_Process(r)
  \/ VB_Probe(r) \/ VB_Key(r) \/ VB_Put(r) \/ VB_Update(r)

\* ------------------------------------------- VA: handlerUploadVideo (17)
\* The checks of steps 2-5 respond with an error and do not return.

\* 2. Extract and parse videoID from URL
VA_ParseID(r) ==
  /\ At(r, "VA", "ParseID")
  /\ \E s \in PathValues :
       LET p == UUIDParse(s)
           l == [loc[r] EXCEPT !.videoID = p.id] IN
       Goto(r, IF p.err THEN RespondWithError(l, StatusBadRequest, "Invalid video ID") ELSE l, "Auth")
  /\ UNCHANGED <<db, disk, s3, drawn, probe, stage>>

\* 3. Authenticate the user
VA_Auth(r) ==
  /\ At(r, "VA", "Auth")
  /\ \E c \in Credentials :
       LET t == GetBearerToken(c)
           u == ValidateJWT(t.token)
           l1 == IF t.err THEN RespondWithError(loc[r], StatusUnauthorized, "Couldn't find JWT") ELSE loc[r]
           l2 == IF u.err THEN RespondWithError(l1, StatusUnauthorized, "Couldn't validate JWT") ELSE l1 IN
       Goto(r, [l2 EXCEPT !.userID = u.userID], "GetVideo")
  /\ UNCHANGED <<db, disk, s3, drawn, probe, stage>>

\* 4. Get video metadata and check ownership
VA_GetVideo(r) ==
  /\ At(r, "VA", "GetVideo")
  /\ LET g == GetVideo(loc[r].videoID)
         l1 == [loc[r] EXCEPT !.video = g.video]
         l2 == IF g.err THEN RespondWithError(l1, StatusNotFound, "Video not found") ELSE l1
         l3 == IF g.video.UserID # loc[r].userID
               THEN RespondWithError(l2, StatusUnauthorized, "You are not authorized to upload this video") ELSE l2 IN
     Goto(r, l3, "FormFile")
  /\ UNCHANGED <<db, disk, s3, drawn, probe, stage>>

\* 5. Parse the uploaded video file from form data. On an error file is
\* nil and file.Close() panics; otherwise the part is closed at once.
VA_FormFile(r) ==
  /\ At(r, "VA", "FormFile")
  /\ \/ Return(r, Did(RespondWithError(loc[r], StatusBadRequest, "Couldn't get video file from form"), "panic"), disk)
     \/ \E h \in VideoHeaders :
          /\ Goto(r, [loc[r] EXCEPT !.contentType = h], "ContentType")
          /\ UNCHANGED disk
  /\ UNCHANGED <<db, s3, drawn, probe, stage>>

\* 6. Validate the uploaded file is a video/mp4
VA_ContentType(r) ==
  /\ At(r, "VA", "ContentType")
  /\ LET h == loc[r].contentType IN
       LET m == ParseMediaType(h)
           l == loc[r] IN
       IF m.err
       THEN Return(r, RespondWithError(l, StatusBadRequest, "Failed to parse media type"), disk)
       ELSE IF m.mediatype # "video/mp4"
       THEN Return(r, RespondWithError(l, StatusBadRequest, "Unsupported file type"), disk)
       ELSE Goto(r, l, "CreateTemp") /\ UNCHANGED disk
  /\ UNCHANGED <<db, s3, drawn, probe, stage>>

\* 7. Save the uploaded file to a temporary file on disk (the pattern has
\* no "*": the random string is appended)
VA_CreateTemp(r) ==
  /\ At(r, "VA", "CreateTemp")
  /\ \/ Return(r, RespondWithError(loc[r], StatusInternalServerError, "Couldn't create temp file"), disk)
     \/ \E n \in TempNames :
          LET path == [dir |-> "tmp", name |-> <<"tubely-upload.mp4", n>>, suffix |-> ""] IN
          /\ path \notin DOMAIN disk
          /\ disk' = WriteFile(disk, path, File(r, "empty"))
          /\ Goto(r, Defer(Defer(Did([loc[r] EXCEPT !.tempFile = path], "CreateTemp"),
                                 "Remove", path), "Close", path), "Copy")
  /\ UNCHANGED <<db, s3, drawn, probe, stage>>

\* 8. Copy contents over (from the part closed in step 5: the read fails
\* when the part is a file on disk); 9. reset the temp file's pointer
VA_Copy(r) ==
  /\ At(r, "VA", "Copy")
  /\ \/ Return(r, RespondWithError(Did(loc[r], "Copy"), StatusInternalServerError, "Couldn't copy video to temp file"),
               WriteFile(disk, loc[r].tempFile, File(r, "partial")))
     \/ Return(r, RespondWithError(Did(Did(loc[r], "Copy"), "Seek"), StatusInternalServerError, "Couldn't reset temp file pointer"),
               WriteFile(disk, loc[r].tempFile, File(r, "full")))
     \/ /\ disk' = WriteFile(disk, loc[r].tempFile, File(r, "full"))
        /\ Goto(r, Did(Did(loc[r], "Copy"), "Seek"), "Put")
  /\ UNCHANGED <<db, s3, drawn, probe, stage>>

\* 10. Put the object into S3
VA_Put(r) ==
  /\ At(r, "VA", "Put")
  /\ \/ /\ Return(r, RespondWithError(loc[r], StatusInternalServerError, "Could not generate random filename for S3 key"), disk)
        /\ UNCHANGED <<s3, drawn>>
     \/ \E b \in RandRead :
          LET s3Key == EncodeToString(b) \o <<".mp4">>
              l == Did([loc[r] EXCEPT !.s3Key = s3Key], "PutObject") IN
          /\ drawn' = drawn \cup {b}
          /\ \/ /\ Return(r, RespondWithError(l, StatusInternalServerError, "Couldn't upload file to S3"), disk)
                /\ UNCHANGED s3
             \/ /\ s3' = (s3Key :> [Body |-> disk[loc[r].tempFile],
                                    ContentType |-> loc[r].contentType]) @@ s3
                /\ Goto(r, l, "Update")
                /\ UNCHANGED disk
  /\ UNCHANGED <<db, probe, stage>>

\* 11. Update the video record in the database with the S3 URL;
\* 12. respond with the updated JSON
VA_Update(r) ==
  /\ At(r, "VA", "Update")
  /\ LET video == [loc[r].video EXCEPT !.VideoURL = VideoURLOf(loc[r].s3Key)]
         l == Did([loc[r] EXCEPT !.video = video], "UpdateVideo") IN
     \/ /\ Return(r, RespondWithError(l, StatusInternalServerError, "Couldn't update video record"), disk)
        /\ UNCHANGED db
     \/ /\ db' = UpdateVideo(video)
        /\ Return(r, RespondWithJSON(l, StatusOK), disk)
  /\ UNCHANGED <<s3, drawn, probe, stage>>

VA(r) ==
  \/ VA_ParseID(r) \/ VA_Auth(r) \/ VA_GetVideo(r) \/ VA_FormFile(r)
  \/ VA_ContentType(r) \/ VA_CreateTemp(r) \/ VA_Copy(r) \/ VA_Put(r)
  \/ VA_Update(r)

\* -------------------------------------- TA: handlerUploadThumbnail (388)

TA_ParseID(r) ==
  /\ At(r, "TA", "ParseID")
  /\ \E s \in PathValues :
       LET p == UUIDParse(s) IN
       IF p.err
       THEN Return(r, RespondWithError(loc[r], StatusBadRequest, "Invalid ID"), disk)
       ELSE Goto(r, [loc[r] EXCEPT !.videoID = p.id], "Auth") /\ UNCHANGED disk
  /\ UNCHANGED <<db, s3, drawn, probe, stage>>

TA_Auth(r) ==
  /\ At(r, "TA", "Auth")
  /\ \E c \in Credentials :
       LET t == GetBearerToken(c)
           u == ValidateJWT(t.token) IN
       IF t.err
       THEN Return(r, RespondWithError(loc[r], StatusUnauthorized, "Couldn't find JWT"), disk)
       ELSE IF u.err
       THEN Return(r, RespondWithError(loc[r], StatusUnauthorized, "Couldn't validate JWT"), disk)
       ELSE Goto(r, [loc[r] EXCEPT !.userID = u.userID], "FormFile") /\ UNCHANGED disk
  /\ UNCHANGED <<db, s3, drawn, probe, stage>>

\* 1. Parse the form data; 2. get the image data from the form
TA_FormFile(r) ==
  /\ At(r, "TA", "FormFile")
  /\ \/ Return(r, RespondWithError(loc[r], StatusBadRequest, "Couldn't get thumbnail file from form"), disk)
     \/ \E h \in ImageHeaders :
          /\ Goto(r, Defer([loc[r] EXCEPT !.contentType = h], "Close", NoPath), "ContentType")
          /\ UNCHANGED disk
  /\ UNCHANGED <<db, s3, drawn, probe, stage>>

\* 3. the media type, parsed; 4. JPEG or PNG only; the file extension
TA_ContentType(r) ==
  /\ At(r, "TA", "ContentType")
  /\ LET h == loc[r].contentType IN
       LET m == ParseMediaType(h)
           e == getFileExtension(m.mediatype)
           l == loc[r] IN
       IF HeaderValue(h) = ""
       THEN Return(r, RespondWithError(l, StatusBadRequest, "Content-Type header is missing"), disk)
       ELSE IF m.err
       THEN Return(r, RespondWithError(l, StatusBadRequest, "Failed to parse media type"), disk)
       ELSE IF m.mediatype # "image/jpeg" /\ m.mediatype # "image/png"
       THEN Return(r, RespondWithError(l, StatusBadRequest, "Unsupported file type"), disk)
       ELSE IF e.err
       THEN Return(r, RespondWithError(l, StatusBadRequest, "unsupported content type"), disk)
       ELSE Goto(r, [l EXCEPT !.fileExt = e.ext], "Create") /\ UNCHANGED disk
  /\ UNCHANGED <<db, s3, drawn, probe, stage>>

\* 5. a random file name; 6. the file path; 7. create the file (os.Create
\* truncates a file that exists)
TA_Create(r) ==
  /\ At(r, "TA", "Create")
  /\ \/ /\ Return(r, RespondWithError(loc[r], StatusInternalServerError, "Could not generate random filename"), disk)
        /\ UNCHANGED drawn
     \/ \E b \in RandRead :
          LET filename == EncodeToString(b) \o <<loc[r].fileExt>>
              filePath == [dir |-> assetsRoot, name |-> filename, suffix |-> ""]
              l == [loc[r] EXCEPT !.filename = filename,
                                  !.filePath = filePath] IN
          /\ drawn' = drawn \cup {b}
          /\ \/ Return(r, RespondWithError(l, StatusInternalServerError, "Couldn't create file on disk"), disk)
             \/ /\ disk' = WriteFile(disk, filePath, File(r, "empty"))
                /\ Goto(r, Defer(Did(l, "Create"), "Close", filePath), "Copy")
  /\ UNCHANGED <<db, s3, probe, stage>>

\* 8. Copy the contents from the form file to the new file on disk
TA_Copy(r) ==
  /\ At(r, "TA", "Copy")
  /\ \/ Return(r, RespondWithError(Did(loc[r], "Copy"), StatusInternalServerError, "Couldn't save file to disk"),
               WriteFile(disk, loc[r].filePath, File(r, "partial")))
     \/ /\ disk' = WriteFile(disk, loc[r].filePath, File(r, "full"))
        /\ Goto(r, Did(loc[r], "Copy"), "GetVideo")
  /\ UNCHANGED <<db, s3, drawn, probe, stage>>

\* TA_GetVideo removing the file it wrote when the lookup or the ownership
\* check fails.
TA_GetVideo_cleanup(r) ==
  /\ At(r, "TA", "GetVideo")
  /\ LET g == GetVideo(loc[r].videoID)
         l == [loc[r] EXCEPT !.video = g.video] IN
     IF g.err
     THEN Return(r, RespondWithError(l, StatusNotFound, "Video not found"), RemoveFile(disk, loc[r].filePath))
     ELSE IF g.video.UserID # loc[r].userID
     THEN Return(r, RespondWithError(l, StatusUnauthorized, "You are not authorized to upload a thumbnail for this video"),
                 RemoveFile(disk, loc[r].filePath))
     ELSE Goto(r, l, "Update") /\ UNCHANGED disk
  /\ UNCHANGED <<db, s3, drawn, probe, stage>>

\* TA_GetVideo answering the ownership mismatch with 403.
TA_GetVideo_forbidden(r) ==
  /\ At(r, "TA", "GetVideo")
  /\ LET g == GetVideo(loc[r].videoID)
         l == [loc[r] EXCEPT !.video = g.video] IN
     IF g.err
     THEN Return(r, RespondWithError(l, StatusNotFound, "Video not found"), disk)
     ELSE IF g.video.UserID # loc[r].userID
     THEN Return(r, RespondWithError(l, 403, "You are not authorized to upload a thumbnail for this video"), disk)
     ELSE Goto(r, l, "Update") /\ UNCHANGED disk
  /\ UNCHANGED <<db, s3, drawn, probe, stage>>

\* 9. Get the video's metadata from the database; the ownership check
TA_GetVideo(r) ==
  /\ At(r, "TA", "GetVideo")
  /\ LET g == GetVideo(loc[r].videoID)
         l == [loc[r] EXCEPT !.video = g.video] IN
     IF g.err
     THEN Return(r, RespondWithError(l, StatusNotFound, "Video not found"), disk)
     ELSE IF g.video.UserID # loc[r].userID
     THEN Return(r, RespondWithError(l, StatusUnauthorized, "You are not authorized to upload a thumbnail for this video"), disk)
     ELSE Goto(r, l, "Update") /\ UNCHANGED disk
  /\ UNCHANGED <<db, s3, drawn, probe, stage>>

\* TA_Update writing the new URL into both locators of the record.
TA_Update_both(r) ==
  /\ At(r, "TA", "Update")
  /\ LET video == [loc[r].video EXCEPT !.ThumbnailURL = ThumbnailURLOf(loc[r].filename),
                                       !.VideoURL = ThumbnailURLOf(loc[r].filename)]
         l == Did([loc[r] EXCEPT !.video = video], "UpdateVideo") IN
     \/ /\ Return(r, RespondWithError(l, StatusInternalServerError, "Couldn't update video metadata"), disk)
        /\ UNCHANGED db
     \/ /\ db' = UpdateVideo(video)
        /\ Return(r, RespondWithJSON(l, StatusOK), disk)
  /\ UNCHANGED <<s3, drawn, probe, stage>>

\* 10. the thumbnail URL; 11. update the record; 12. respond
TA_Update(r) ==
  /\ At(r, "TA", "Update")
  /\ LET video == [loc[r].video EXCEPT !.ThumbnailURL = ThumbnailURLOf(loc[r].filename)]
         l == Did([loc[r] EXCEPT !.video = video], "UpdateVideo") IN
     \/ /\ Return(r, RespondWithError(l, StatusInternalServerError, "Couldn't update video metadata"), disk)
        /\ UNCHANGED db
     \/ /\ db' = UpdateVideo(video)
        /\ Return(r, RespondWithJSON(l, StatusOK), disk)
  /\ UNCHANGED <<s3, drawn, probe, stage>>

TA(r) ==
  \/ TA_ParseID(r) \/ TA_Auth(r) \/ TA_FormFile(r) \/ TA_ContentType(r)
  \/ TA_Create(r) \/ TA_Copy(r) \/ TA_GetVideo(r) \/ TA_Update(r)

\* -------------------------------------- TB: handlerUploadThumbnail (534)

TB_ParseID(r) ==
  /\ At(r, "TB", "ParseID")
  /\ \E s \in PathValues :
       LET p == UUIDParse(s) IN
       IF p.err
       THEN Return(r, RespondWithError(loc[r], StatusBadRequest, "Invalid ID"), disk)
       ELSE Goto(r, [loc[r] EXCEPT !.videoID = p.id], "Auth") /\ UNCHANGED disk
  /\ UNCHANGED <<db, s3, drawn, probe, stage>>

TB_Auth(r) ==
  /\ At(r, "TB", "Auth")
  /\ \E c \in Credentials :
       LET t == GetBearerToken(c)
           u == ValidateJWT(t.token) IN
       IF t.err
       THEN Return(r, RespondWithError(loc[r], StatusUnauthorized, "Couldn't find JWT"), disk)
       ELSE IF u.err
       THEN Return(r, RespondWithError(loc[r], StatusUnauthorized, "Couldn't validate JWT"), disk)
       ELSE Goto(r, [loc[r] EXCEPT !.userID = u.userID], "FormFile") /\ UNCHANGED disk
  /\ UNCHANGED <<db, s3, drawn, probe, stage>>

\* 1. Parse the form data; 2. get the image data from the form
TB_FormFile(r) ==
  /\ At(r, "TB", "FormFile")
  /\ \/ Return(r, RespondWithError(loc[r], StatusBadRequest, "Couldn't get thumbnail file from form"), disk)
     \/ \E h \in ImageHeaders :
          /\ Goto(r, Defer([loc[r] EXCEPT !.contentType = h], "Close", NoPath), "ContentType")
          /\ UNCHANGED disk
  /\ UNCHANGED <<db, s3, drawn, probe, stage>>

\* 3. the media type as sent; the file extension derived from it
TB_ContentType(r) ==
  /\ At(r, "TB", "ContentType")
  /\ LET h == loc[r].contentType IN
       LET mediaType == HeaderValue(h)
           e == getFileExtension(mediaType)
           l == loc[r] IN
       IF mediaType = ""
       THEN Return(r, RespondWithError(l, StatusBadRequest, "Content-Type header is missing"), disk)
       ELSE IF e.err
       THEN Return(r, RespondWithError(l, StatusBadRequest, "unsupported content type"), disk)
       ELSE Goto(r, [l EXCEPT !.fileExt = e.ext], "Create") /\ UNCHANGED disk
  /\ UNCHANGED <<db, s3, drawn, probe, stage>>

\* 4. the file path from the video id; 5. create the file (os.Create
\* truncates a file that exists)
TB_Create(r) ==
  /\ At(r, "TB", "Create")
  /\ LET filename == <<loc[r].videoID, loc[r].fileExt>>
         filePath == [dir |-> assetsRoot, name |-> filename, suffix |-> ""]
         l == [loc[r] EXCEPT !.filename = filename, !.filePath = filePath] IN
     \/ Return(r, RespondWithError(l, StatusInternalServerError, "Couldn't create file on disk"), disk)
     \/ /\ disk' = WriteFile(disk, filePath, File(r, "empty"))
        /\ Goto(r, Defer(Did(l, "Create"), "Close", filePath), "Copy")
  /\ UNCHANGED <<db, s3, drawn, probe, stage>>

\* 6. Copy the contents from the form file to the new file on disk
TB_Copy(r) ==
  /\ At(r, "TB", "Copy")
  /\ \/ Return(r, RespondWithError(Did(loc[r], "Copy"), StatusInternalServerError, "Couldn't save file to disk"),
               WriteFile(disk, loc[r].filePath, File(r, "partial")))
     \/ /\ disk' = WriteFile(disk, loc[r].filePath, File(r, "full"))
        /\ Goto(r, Did(loc[r], "Copy"), "GetVideo")
  /\ UNCHANGED <<db, s3, drawn, probe, stage>>

\* 7. Get the video's metadata from the database; the ownership check
TB_GetVideo(r) ==
  /\ At(r, "TB", "GetVideo")
  /\ LET g == GetVideo(loc[r].videoID)
         l == [loc[r] EXCEPT !.video = g.video] IN
     IF g.err
     THEN Return(r, RespondWithError(l, StatusNotFound, "Video not found"), disk)
     ELSE IF g.video.UserID # loc[r].userID
     THEN Return(r, RespondWithError(l, StatusUnauthorized, "You are not authorized to upload a thumbnail for this video"), disk)
     ELSE Goto(r, l, "Update") /\ UNCHANGED disk
  /\ UNCHANGED <<db, s3, drawn, probe, stage>>

\* 8. the thumbnail URL; 9. update the record; 10. respond
TB_Update(r) ==
  /\ At(r, "TB", "Update")
  /\ LET video == [loc[r].video EXCEPT !.ThumbnailURL = ThumbnailURLOf(loc[r].filename)]
         l == Did([loc[r] EXCEPT !.video = video], "UpdateVideo") IN
     \/ /\ Return(r, RespondWithError(l, StatusInternalServerError, "Couldn't update video metadata"), disk)
        /\ UNCHANGED db
     \/ /\ db' = UpdateVideo(video)
        /\ Return(r, RespondWithJSON(l, StatusOK), disk)
  /\ UNCHANGED <<s3, drawn, probe, stage>>

TB(r) ==
  \/ TB_ParseID(r) \/ TB_Auth(r) \/ TB_FormFile(r) \/ TB_ContentType(r)
  \/ TB_Create(r) \/ TB_Copy(r) \/ TB_GetVideo(r) \/ TB_Update(r)

\* ------------------------------------------------------ the specification

Next == \E r \in Reqs : Dispatch(r) \/ VA(r) \/ VB(r) \/ TA(r) \/ TB(r)

Spec == Init /\ [][Next]_vars

\* ------------------------------------- SpecProbe: the prober on its own
\* The classification applied to every prober outcome of a bounded set of
\* stream geometries: getVideoAspectRatio, then the handler's switch.

ProbeDims ==
  ((0..MaxDim) \X (0..MaxDim))
  \cup { <<1920, 1080>>, <<1080, 1920>>, <<1280, 720>>, <<55, 100>>, <<56, 100>>,
         <<57, 100>>, <<171, 100>>, <<179, 100>>, <<-16, 9>> }

InitProbeSpec ==
  /\ loc = [r \in Reqs |-> InitLoc]
  /\ db = InitDB
  /\ disk = <<>>
  /\ s3 = <<>>
  /\ drawn = {}
  /\ stage = InitStage
  /\ probe \in { [in |-> o, out |-> [err |-> FALSE, val |-> ""], prefix |-> "", pc |-> "probe"] :
                 o \in ProbeRuns(ProbeDims) }

\* aspectRatio, err := getVideoAspectRatio(...); an error ends the request
ProbeRun ==
  /\ probe.pc = "probe"
  /\ LET a == getVideoAspectRatio(probe.in) IN
     probe' = [probe EXCEPT !.out = a, !.pc = IF a.err THEN "error" ELSE "switch"]
  /\ UNCHANGED <<loc, db, disk, s3, drawn, stage>>

\* switch aspectRatio
ProbeSwitch ==
  /\ probe.pc = "switch"
  /\ probe' = [probe EXCEPT !.prefix = S3KeyPrefix(probe.out.val), !.pc = "done"]
  /\ UNCHANGED <<loc, db, disk, s3, drawn, stage>>

NextProbe == ProbeRun \/ ProbeSwitch

SpecProbe == InitProbeSpec /\ [][NextProbe]_vars

\* ------------------------------------- SpecLive: one request, scheduled
\* One request run to its end. Weak fairness of its steps: the goroutine
\* is scheduled and every external call it waits for (body read, ffmpeg,
\* ffprobe, PutObject, record store) returns.

LiveReq == "r1"

NextLive ==
  Dispatch(LiveReq) \/ VA(LiveReq) \/ VB(LiveReq) \/ TA(LiveReq) \/ TB(LiveReq)

SpecLive == Init /\ [][NextLive]_vars /\ WF_vars(NextLive)

\* ---------------------------------- SpecStage: the staging of one upload
\* Steps 1 and 5-9 of the two bodies of handlerUploadVideo for one request
\* whose form is well-formed, with the sizes kept: the request body is the
\* part's bytes plus the multipart framing, read through MaxBytesReader.

Min(a, b) == IF a < b THEN a ELSE b

StageParts ==
  (0..MaxPart)
  \cup { defaultMaxMemory - 1, defaultMaxMemory, defaultMaxMemory + 1 }
  \cup { maxUploadSize - k : k \in 0..MaxPart }
  \cup { maxUploadSize + k : k \in 1..MaxPart }

InitStageSpec ==
  /\ loc = [r \in Reqs |-> InitLoc]
  /\ db = InitDB
  /\ disk = <<>>
  /\ s3 = <<>>
  /\ drawn = {}
  /\ probe = InitProbe
  /\ stage \in { [InitStage EXCEPT !.pc = "FormFile", !.kind = k, !.part = s, !.framing = f] :
                 k \in VideoKinds, s \in StageParts, f \in 1..MaxFraming }

\* respondWithError and return: the deferred os.Remove deletes the temp file.
StageFail(st, code, msg, cause) ==
  [st EXCEPT !.pc = "done", !.code = code, !.msg = msg, !.cause = cause,
             !.tempFile = NoTemp]

\* mime/multipart File.Close: a part kept in memory has nothing to close
\* and stays readable; a part spooled to disk closes its os.File.
FileRead(file) ==
  IF file.backing = "disk" /\ ~file.open
  THEN [err |-> TRUE, n |-> 0]
  ELSE [err |-> FALSE, n |-> file.size]

\* 1. MaxBytesReader; 5. r.FormFile("video") reads the whole body; the
\* body at line 17 closes the part at once, the body at line 142 defers it.
Stage_FormFile ==
  /\ stage.pc = "FormFile"
  /\ LET body == stage.part + stage.framing
         st == [stage EXCEPT !.read = Min(body, maxUploadSize)] IN
     IF body > maxUploadSize
     THEN stage' = StageFail(st, StatusBadRequest, "Couldn't get video file from form", "limit")
     ELSE stage' = [st EXCEPT !.pc = "CreateTemp",
                      !.file = [backing |-> IF stage.part <= defaultMaxMemory THEN "memory" ELSE "disk",
                                open |-> (stage.kind = "VB"),
                                size |-> stage.part]]
  /\ UNCHANGED <<loc, db, disk, s3, drawn, probe>>

\* 7. os.CreateTemp
Stage_CreateTemp ==
  /\ stage.pc = "CreateTemp"
  /\ \/ stage' = StageFail(stage, StatusInternalServerError, "Couldn't create temp file", "create")
     \/ stage' = [stage EXCEPT !.pc = "Copy", !.tempFile = [exists |-> TRUE, bytes |-> 0, offset |-> 0]]
  /\ UNCHANGED <<loc, db, disk, s3, drawn, probe>>

\* 8. io.Copy(tempFile, file): the read fails on a closed os.File; a write
\* may fail (disk full) after part of the bytes.
Stage_Copy ==
  /\ stage.pc = "Copy"
  /\ LET rd == FileRead(stage.file) IN
     IF rd.err
     THEN stage' = StageFail(stage, StatusInternalServerError, "Couldn't copy video to temp file", "closed")
     ELSE \/ \E n \in {0, rd.n - 1} :
               /\ 0 <= n /\ n < rd.n
               /\ stage' = StageFail([stage EXCEPT !.written = n], StatusInternalServerError,
                                     "Couldn't copy video to temp file", "write")
          \/ stage' = [stage EXCEPT !.pc = "Seek", !.written = rd.n,
                         !.readOpen = stage.file.open,
                         !.tempFile = [exists |-> TRUE, bytes |-> rd.n, offset |-> rd.n]]
  /\ UNCHANGED <<loc, db, disk, s3, drawn, probe>>

\* 9. tempFile.Seek(0, io.SeekStart)
Stage_Seek ==
  /\ stage.pc = "Seek"
  /\ \/ stage' = StageFail(stage, StatusInternalServerError, "Couldn't reset temp file pointer", "seek")
     \/ stage' = [stage EXCEPT !.pc = "staged", !.tempFile.offset = 0]
  /\ UNCHANGED <<loc, db, disk, s3, drawn, probe>>

\* The next step reads the staged file: ffmpeg by its path (line 220),
\* PutObject from the handle's offset (line 102).
Stage_Downstream ==
  /\ stage.pc = "staged"
  /\ stage' = [stage EXCEPT !.pc = "read",
                 !.delivered = IF stage.kind = "VB" THEN stage.tempFile.bytes
                               ELSE stage.tempFile.bytes - stage.tempFile.offset]
  /\ UNCHANGED <<loc, db, disk, s3, drawn, probe>>

NextStage ==
  Stage_FormFile \/ Stage_CreateTemp \/ Stage_Copy \/ Stage_Seek \/ Stage_Downstream

SpecStage == InitStageSpec /\ [][NextStage]_vars

\* ------------------------------------------------------------- properties

Done(r) == loc[r].pc = "done"
InFlight(r) == loc[r].pc \notin {"idle", "done"}
HasEv(t, op) == \E i \in 1..Len(t) : t[i].op = op
HasErr(t, msg) == \E i \in 1..Len(t) : t[i].op = "respondWithError" /\ t[i].msg = msg
LastEv(t) == t[Len(t)]
Succeeded(r) ==
  /\ Done(r)
  /\ loc[r].trace # <<>>
  /\ LastEv(loc[r].trace) = Ev("respondWithJSON", StatusOK, "")

\* The staged and processed files on disk that hold bytes of request r.
TempFilesOf(r) == { p \in DOMAIN disk : p.dir = "tmp" /\ disk[p].from = r }
\* The files under the asset root written by request r.
AssetFilesOf(r) == { p \in DOMAIN disk : p.dir = assetsRoot /\ disk[p].from = r }

StagingOps == {"CreateTemp", "Copy", "Seek"}
ToolOps == {"ffmpeg", "ffprobe"}
PipelineOps == StagingOps \cup ToolOps \cup {"PutObject", "UpdateVideo"}

MsgNotOwnerVideo == "You are not authorized to upload this video"
MsgNotOwnerThumb == "You are not authorized to upload a thumbnail for this video"
MsgProcess == "Couldn't process video for fast start"

\* C1: once a video upload request has completed, no staged or processed
\* file created during it is on disk, whatever step it ended at.
C1_TempFilesGone ==
  \A r \in Reqs : (loc[r].kind \in VideoKinds /\ Done(r)) => TempFilesOf(r) = {}

\* C2: a request whose transcoder invocation failed has ended with a 500
\* response, its staged file and any partial output at
\* <staged path>.processing are removed, and it has not updated the record.
C2_TranscoderFailure ==
  \A r \in Reqs :
    (Done(r) /\ HasErr(loc[r].trace, MsgProcess)) =>
      /\ LastEv(loc[r].trace) = Ev("respondWithError", StatusInternalServerError, MsgProcess)
      /\ TempFilesOf(r) = {}
      /\ ~HasEv(loc[r].trace, "UpdateVideo")

\* C3 (handler at line 142): a request whose identity differs from the
\* record's owner ends at the ownership check with a 401 response; it has
\* created no temp file, run no tool, put nothing and updated nothing, and
\* the step leaves disk, object store and record store as they were.
C3_NonOwnerRejected ==
  /\ [](\A r \in Reqs :
          (loc[r].kind = "VB" /\ HasErr(loc[r].trace, MsgNotOwnerVideo)) =>
            /\ Done(r)
            /\ \A i \in 1..Len(loc[r].trace) : loc[r].trace[i].op \notin PipelineOps)
  /\ [][\A r \in Reqs :
          ( /\ At(r, "VB", "GetVideo")
            /\ loc'[r] # loc[r]
            /\ loc[r].videoID \in DOMAIN db
            /\ db[loc[r].videoID].UserID # loc[r].userID ) =>
          ( /\ loc'[r].pc = "done"
            /\ loc'[r].trace = Append(loc[r].trace,
                 Ev("respondWithError", StatusUnauthorized, MsgNotOwnerVideo))
            /\ disk' = disk /\ s3' = s3 /\ db' = db )]_vars

C3_Witness ==
  \E r \in Reqs : loc[r].kind = "VB" /\ Done(r) /\ HasErr(loc[r].trace, MsgNotOwnerVideo)

\* C4: a thumbnail request that fails the record lookup or the ownership
\* check has created no file under the asset root.
C4_ThumbOwnershipFirst ==
  \A r \in Reqs :
    ( /\ loc[r].kind \in ThumbKinds
      /\ \/ HasErr(loc[r].trace, "Video not found")
         \/ HasErr(loc[r].trace, MsgNotOwnerThumb) ) =>
      /\ ~HasEv(loc[r].trace, "Create")
      /\ AssetFilesOf(r) = {}

\* C5: in both bodies of handlerUploadVideo, once a request has written an
\* error response it stages nothing, runs no tool, puts nothing and
\* updates no record.
C5_ShortCircuit ==
  \A r \in Reqs :
    loc[r].kind \in VideoKinds =>
      \A i, j \in 1..Len(loc[r].trace) :
        (i < j /\ loc[r].trace[i].op = "respondWithError") =>
          loc[r].trace[j].op \notin PipelineOps

\* C6: the classification of the prober's outcome. A failed run or
\* unparsable output is an error; no streams or height 0 give "other"; for
\* height > 0, "landscape" iff 1.70 < width/height < 1.80, "portrait" iff
\* 0.55 < width/height < 0.57, "other" otherwise.
C6_Classification ==
  LET o == probe.in
      failed == o.run \in {"fail", "malformed"} IN
  /\ probe.pc = "error" => (failed /\ probe.prefix = "")
  /\ (probe.pc \in {"switch", "done"}) => ~failed
  /\ probe.pc = "done" =>
       IF o.streams = <<>> THEN probe.prefix = "other"
       ELSE LET w == o.streams[1][1]
                h == o.streams[1][2]
                land == 170 * h < 100 * w /\ 100 * w < 180 * h
                prt == 55 * h < 100 * w /\ 100 * w < 57 * h IN
            IF h = 0 THEN probe.prefix = "other"
            ELSE h > 0 =>
                 /\ probe.prefix = "landscape" <=> land
                 /\ probe.prefix = "portrait" <=> prt
                 /\ probe.prefix = "other" <=> (~land /\ ~prt)

\* a stream exactly at the lower limit of the landscape band
C6_Witness ==
  /\ probe.pc = "done"
  /\ probe.in.streams = << <<17, 10>> >>
  /\ probe.prefix = "other"

\* key = prefix "/" token ".mp4", the token of n URL-safe characters
KeyMatches(key, prefix, n) ==
  /\ Len(key) = n + 3
  /\ key[1] = prefix
  /\ key[2] = "/"
  /\ \A i \in 3..(n + 2) : key[i] \in AlphabetChars
  /\ key[n + 3] = ".mp4"

\* The step of request r is the successful record update of the handler
\* at line 142 for an upload probed as 1920x1080.
Landscape1080Update(r) ==
  /\ At(r, "VB", "Update")
  /\ loc[r].ffprobe.streams # <<>>
  /\ loc[r].ffprobe.streams[1] = <<1920, 1080>>
  /\ loc'[r].pc = "done"
  /\ LastEv(loc'[r].trace) = Ev("respondWithJSON", StatusOK, "")

\* C7 as stated: the key is landscape/<22-char-token>.mp4 and the record's
\* video locator becomes https://<bucket>.s3.<region>.amazonaws.com/<key>.
C7_Landscape22 ==
  [][\A r \in Reqs :
       Landscape1080Update(r) =>
         /\ KeyMatches(loc[r].s3Key, "landscape", 22)
         /\ db'[loc[r].videoID].VideoURL =
              <<"https://", s3Bucket, ".s3.", s3Region, ".amazonaws.com/">> \o loc[r].s3Key]_vars

\* C7 amended: the token has 43 characters (32 random bytes in unpadded
\* URL-safe base64).
C7_Landscape43 ==
  [][\A r \in Reqs :
       Landscape1080Update(r) =>
         /\ loc[r].s3KeyPrefix = "landscape"
         /\ KeyMatches(loc[r].s3Key, "landscape", 43)
         /\ db'[loc[r].videoID].VideoURL =
              <<"https://", s3Bucket, ".s3.", s3Region, ".amazonaws.com/">> \o loc[r].s3Key]_vars

C7_Witness ==
  \E r \in Reqs :
    /\ loc[r].kind = "VB" /\ Succeeded(r)
    /\ db["v1"].VideoURL # <<>>
    /\ db["v1"].VideoURL[6] = "landscape"

\* The step of request r is a successful record update.
UpdateStep(r) ==
  /\ loc[r].pc = "Update"
  /\ loc'[r].pc = "done"
  /\ LastEv(loc'[r].trace) = Ev("respondWithJSON", StatusOK, "")
  /\ loc[r].video.ID \in DOMAIN db

\* C8: the record update writes back the whole record the request read
\* earlier, with no check against the stored one: after a video update
\* the stored thumbnail locator is the one the request read, after a
\* thumbnail update the stored video locator is the one the request read,
\* whatever the store held in between (last write wins).
C8_WholeRecordWrite ==
  [][\A r \in Reqs :
       UpdateStep(r) =>
         LET read == loc[r].video
             stored == db'[read.ID] IN
         /\ stored.ID = read.ID /\ stored.UserID = read.UserID
         /\ IF loc[r].kind \in VideoKinds
            THEN stored.ThumbnailURL = read.ThumbnailURL /\ stored.VideoURL # <<>>
            ELSE stored.VideoURL = read.VideoURL /\ stored.ThumbnailURL # <<>>]_vars

\* a video upload and a thumbnail upload to the same record both returned
\* success and one of the two locators is missing from the stored record
C8_Witness ==
  \E r1, r2 \in Reqs :
    /\ loc[r1].kind = "VB" /\ Succeeded(r1)
    /\ loc[r2].kind \in ThumbKinds /\ Succeeded(r2)
    /\ db["v1"].VideoURL = <<>> \/ db["v1"].ThumbnailURL = <<>>

\* The paths request r has created or is writing.
PathsOf(r) == {loc[r].tempFile, loc[r].processedFilePath, loc[r].filePath} \ {NoPath}

\* C9: two requests in flight never hold the same path on disk.
C9_DisjointPaths ==
  \A r1, r2 \in Reqs :
    (r1 # r2 /\ InFlight(r1) /\ InFlight(r2)) => PathsOf(r1) \cap PathsOf(r2) = {}

\* The allow-list applied to the parsed, parameter-stripped media type.
Allowed(kind, h) ==
  LET m == ParseMediaType(h) IN
  /\ ~m.err
  /\ IF kind \in VideoKinds THEN m.mediatype = "video/mp4"
     ELSE m.mediatype \in {"image/jpeg", "image/png"}

\* C10: at the content type check a permitted type (with or without
\* parameters) lets the request go on; any other or unparsable type ends
\* it with a 400 response, no file created and the record store unchanged.
C10_AllowList ==
  [][\A r \in Reqs :
       (loc[r].pc = "ContentType" /\ loc'[r] # loc[r]) =>
         IF Allowed(loc[r].kind, loc[r].contentType)
         THEN loc'[r].pc # "done"
         ELSE /\ loc'[r].pc = "done"
              /\ LastEv(loc'[r].trace).op = "respondWithError"
              /\ LastEv(loc'[r].trace).code = StatusBadRequest
              /\ disk' = disk /\ db' = db]_vars

\* C11: staging a request body within the limit yields a staged file of
\* exactly the part's bytes, copied from a part that is still open (the
\* copy fails only when the write fails), rewound to offset 0 before the
\* next step reads it, which then gets every byte; a body over the limit
\* ends the request with 400 and nothing staged; never more than the limit
\* is read or written.
C11_Staging ==
  LET body == stage.part + stage.framing IN
  /\ stage.read <= maxUploadSize /\ stage.written <= maxUploadSize
  /\ (body > maxUploadSize /\ stage.pc # "FormFile") =>
       /\ stage.pc = "done" /\ stage.code = StatusBadRequest
       /\ stage.written = 0 /\ ~stage.tempFile.exists
  /\ (body <= maxUploadSize /\ stage.pc = "done") =>
       /\ stage.code = StatusInternalServerError
       /\ stage.cause \in {"create", "write", "seek"}
  /\ stage.pc \in {"Seek", "staged", "read"} =>
       /\ stage.tempFile.exists /\ stage.tempFile.bytes = stage.part
       /\ stage.readOpen
  /\ stage.pc \in {"staged", "read"} => stage.tempFile.offset = 0
  /\ stage.pc = "read" => stage.delivered = stage.part

\* The status the failure of the step at position pc stands for: 400 for
\* the identifier, the form field and the content type, 401 for the
\* credential and the ownership mismatch, 404 for the absent record, 500
\* for staging, tools, put and record update.
FailureStatus(r) ==
  CASE loc[r].pc \in {"ParseID", "FormFile", "ContentType"} -> StatusBadRequest
    [] loc[r].pc = "Auth" -> StatusUnauthorized
    [] loc[r].pc = "GetVideo" ->
         IF loc[r].videoID \in DOMAIN db THEN StatusUnauthorized ELSE StatusNotFound
    [] OTHER -> StatusInternalServerError

\* C12 (handlers at lines 142, 388 and 534): the step that ends a request
\* writes as its last call either an error whose status is the one of the
\* failed step's category, or, only at the record update and with the
\* submitted record stored, the 200 response.
C12_StatusByCategory ==
  [][\A r \in Reqs :
       (loc[r].kind \in {"VB", "TA", "TB"} /\ loc[r].pc # "done" /\ loc'[r].pc = "done") =>
         LET last == LastEv(loc'[r].trace) IN
         \/ /\ last.op = "respondWithError"
            /\ last.code = FailureStatus(r)
            /\ db' = db
         \/ /\ last = Ev("respondWithJSON", StatusOK, "")
            /\ loc[r].pc = "Update"
            /\ db'[loc[r].video.ID].ID = loc[r].video.ID
            /\ IF loc[r].kind = "VB"
               THEN db'[loc[r].video.ID].VideoURL = VideoURLOf(loc[r].s3Key)
               ELSE db'[loc[r].video.ID].ThumbnailURL = ThumbnailURLOf(loc[r].filename)]_vars

\* a video upload ended by a failed put and a thumbnail upload ended by
\* the ownership mismatch
C12_Witness ==
  \E r1, r2 \in Reqs :
    /\ loc[r1].kind = "VB" /\ Done(r1)
    /\ LastEv(loc[r1].trace) = Ev("respondWithError", StatusInternalServerError, "Couldn't upload file to S3")
    /\ loc[r2].kind = "TA" /\ Done(r2)
    /\ LastEv(loc[r2].trace) = Ev("respondWithError", StatusUnauthorized, MsgNotOwnerThumb)

\* The calls of the handler at line 142 in the order of its steps.
PipelineSeq ==
  <<"CreateTemp", "Copy", "Seek", "ffmpeg", "ffprobe", "PutObject", "UpdateVideo", "respondWithJSON">>

\* t is the first n calls of PipelineSeq, then at most one error response.
IsPipelinePrefix(t) ==
  \E n \in 0..Len(PipelineSeq) :
    /\ Len(t) \in {n, n + 1}
    /\ \A i \in 1..n : t[i].op = PipelineSeq[i]
    /\ Len(t) = n + 1 => (t[n + 1].op = "respondWithError" /\ n < Len(PipelineSeq))

\* C13 (handler at line 142): the calls a request has made are the steps
\* in their order, each made only when all before it returned without an
\* error, and an error response ends them; the transcoder finds the staged
\* file fully written, the put sends the transcoder's complete output, and
\* a step that changes a record's video locator is the update of a request
\* whose object is already in the store under the locator's key.
C13_Sequential ==
  /\ [](\A r \in Reqs : loc[r].kind = "VB" => IsPipelinePrefix(loc[r].trace))
  /\ [][\A r \in Reqs :
          (loc[r].kind = "VB" /\ loc'[r] # loc[r]) =>
            /\ loc[r].pc = "Process" => disk[loc[r].tempFile] = File(r, "full")
            /\ loc[r].pc = "Put" => disk[loc[r].processedFilePath] = File(r, "faststart")
            /\ db' # db =>
                 /\ loc[r].pc = "Update"
                 /\ loc[r].s3Key \in DOMAIN s3
                 /\ s3[loc[r].s3Key].Body = File(r, "faststart")
                 /\ db'[loc[r].videoID].VideoURL = VideoURLOf(loc[r].s3Key)]_vars

\* a successful upload: the record's locator names the object the request put
C13_Witness ==
  \E r \in Reqs : \E k \in DOMAIN s3 :
    /\ loc[r].kind = "VB" /\ Succeeded(r)
    /\ s3[k].Body = File(r, "faststart")
    /\ db["v1"].VideoURL = VideoURLOf(k)

\* C14 (handlers at lines 142, 388 and 534): the only step of a request
\* that changes the record store is its successful record update, which
\* stores the record the request read with its own locator replaced (the
\* video locator for a video upload, the thumbnail locator for a thumbnail
\* upload) and leaves every other record as it is; every other step,
\* every failing one included, leaves the store unchanged.
C14_Frame ==
  [][\A r \in Reqs :
       (loc[r].kind \in {"VB", "TA", "TB"} /\ loc'[r] # loc[r]) =>
         IF UpdateStep(r)
         THEN LET read == loc[r].video
                  submitted == IF loc[r].kind = "VB"
                               THEN [read EXCEPT !.VideoURL = VideoURLOf(loc[r].s3Key)]
                               ELSE [read EXCEPT !.ThumbnailURL = ThumbnailURLOf(loc[r].filename)] IN
              /\ DOMAIN db' = DOMAIN db
              /\ db'[read.ID] = submitted
              /\ \A id \in DOMAIN db \ {read.ID} : db'[id] = db[id]
         ELSE db' = db]_vars

\* a thumbnail upload succeeded on a record that holds a video locator:
\* both locators are stored and the other record is as it was
C14_Witness ==
  \E r \in Reqs :
    /\ loc[r].kind \in ThumbKinds /\ Succeeded(r)
    /\ db["v1"].VideoURL # <<>> /\ db["v1"].ThumbnailURL # <<>>
    /\ db["v2"] = InitDB["v2"]

\* C15: every object in the store carries as content type the parsed,
\* parameter-stripped media type that passed the check, "video/mp4".
C15_ValidatedContentType ==
  \A k \in DOMAIN s3 :
    /\ ~ParseMediaType(s3[k].ContentType).err
    /\ HeaderValue(s3[k].ContentType) = ParseMediaType(s3[k].ContentType).mediatype
    /\ HeaderValue(s3[k].ContentType) = "video/mp4"

\* The assets stored by uploads that have completed with success.
StoredKeys == { k \in DOMAIN s3 : Succeeded(s3[k].Body.from) }
StoredFiles == { p \in DOMAIN disk : p.dir = assetsRoot /\ Succeeded(disk[p].from) }

\* C16: no step overwrites or removes an asset stored by an upload that
\* has succeeded, and an upload stores its asset under a key / file name
\* not in use before.
C16_AssetsKept ==
  [][/\ \A k \in StoredKeys : k \in DOMAIN s3' /\ s3'[k] = s3[k]
     /\ \A p \in StoredFiles : p \in DOMAIN disk' /\ disk'[p] = disk[p]
     /\ \A k \in DOMAIN s3' \ DOMAIN s3 : k \notin DOMAIN s3
     /\ \A r \in Reqs :
          (loc[r].pc = "Create" /\ loc'[r].pc = "Copy") => loc'[r].filePath \notin DOMAIN disk]_vars

HasResponse(t) ==
  \E i \in 1..Len(t) : t[i].op \in {"respondWithError", "respondWithJSON"}

\* The positions at which the handler waits for ffmpeg / ffprobe.
ToolSteps == {"Process", "Probe"}

\* C17: when every external call returns, a request that was handed to a
\* handler eventually has responded, is over, and none of its staged or
\* processed files is on disk; and while a request waits for a tool it
\* has not responded and its staged file is on disk, with no step of its
\* own but the tool's return (no timeout).
C17_Termination ==
  /\ \A r \in {LiveReq} :
       (loc[r].pc # "idle") ~> (Done(r) /\ HasResponse(loc[r].trace) /\ TempFilesOf(r) = {})
  /\ [](\A r \in Reqs :
          (loc[r].kind = "VB" /\ loc[r].pc \in ToolSteps) =>
            /\ ~HasResponse(loc[r].trace)
            /\ loc[r].tempFile \in DOMAIN disk)
  /\ [][\A r \in Reqs :
          (loc[r].kind = "VB" /\ loc[r].pc \in ToolSteps /\ loc'[r] # loc[r]) =>
            \E i \in 1..Len(loc'[r].trace) : loc'[r].trace[i].op = IF loc[r].pc = "Process" THEN "ffmpeg" ELSE "ffprobe"]_vars

\* The number of responses a request has written.
RECURSIVE Responses(_)
Responses(t) ==
  IF t = <<>> THEN 0
  ELSE (IF t[Len(t)].op \in {"respondWithError", "respondWithJSON"} THEN 1 ELSE 0)
       + Responses(SubSeq(t, 1, Len(t) - 1))

\* C18: a request has written at most one response, and exactly one when
\* its handler has returned.
C18_OneResponse ==
  \A r \in Reqs :
    /\ Responses(loc[r].trace) <= 1
    /\ Done(r) => Responses(loc[r].trace) = 1

\* The step of request r ends it with an error response.
FailingStep(r) ==
  /\ loc[r].pc # "done" /\ loc'[r].pc = "done"
  /\ LastEv(loc'[r].trace).op = "respondWithError"

\* C19: no step removes an object from the store or a file from the asset
\* root. A video request whose record update fails ends with 500 and its
\* object stays in the store, its key in no record's video locator; a
\* thumbnail request that fails at the record lookup, the ownership check
\* or the update leaves the file it wrote under the asset root.
C19_NoDelete ==
  [][/\ \A k \in DOMAIN s3 : k \in DOMAIN s3' /\ s3'[k] = s3[k]
     /\ \A p \in DOMAIN disk : p.dir = assetsRoot => p \in DOMAIN disk'
     /\ \A r \in Reqs :
          /\ (loc[r].kind = "VB" /\ loc[r].pc = "Update" /\ FailingStep(r)) =>
               /\ LastEv(loc'[r].trace) =
                    Ev("respondWithError", StatusInternalServerError, "Couldn't update video record")
               /\ loc[r].s3Key \in DOMAIN s3'
               /\ s3'[loc[r].s3Key].Body.from = r
               /\ \A id \in DOMAIN db' : db'[id].VideoURL # VideoURLOf(loc[r].s3Key)
          /\ (loc[r].kind \in ThumbKinds /\ loc[r].pc \in {"GetVideo", "Update"} /\ FailingStep(r)) =>
               loc[r].filePath \in DOMAIN disk']_vars

\* a video upload ended by the failed record update with its object in the
\* store, and a thumbnail upload ended by the ownership mismatch with its
\* file under the asset root
C19_Witness ==
  \E r1, r2 \in Reqs :
    /\ loc[r1].kind = "VB" /\ Done(r1)
    /\ HasErr(loc[r1].trace, "Couldn't update video record")
    /\ \E k \in DOMAIN s3 : s3[k].Body.from = r1
    /\ loc[r2].kind = "TA" /\ Done(r2)
    /\ HasErr(loc[r2].trace, MsgNotOwnerThumb)
    /\ AssetFilesOf(r2) # {}

====
